---- MODULE Spec2Model ----
(***************************************************************************)
(* Model of src/api.py: the SQLite-backed Store (ChatbotDatabase), the     *)
(* orchestrator (Chatbot.process_message) and the two HTTP handlers that   *)
(* reach the Store (chat, get_history), run by concurrent request threads. *)
(*                                                                         *)
(* Text is a sequence of tokens.  The tokens "/salvar" and "/recuperar"    *)
(* stand for those substrings, ":" and " " for the colon and a blank, and  *)
(* every other token for a run of ordinary characters.                     *)
(***************************************************************************)
EXTENDS Integers, Sequences, FiniteSets, TLC

\* ------------------------------------------------------------- bounds
NumThreads == 2
MaxRequests == 3

Threads == 1..NumThreads

\* The fixed context window of process_message (api.py:194).
ContextLimit == 2

\* An optional value: <<>> is Python's None, <<v>> is the value v.
None == <<>>
Some(v) == <<v>>

\* ------------------------------------------------------------- text
SALVAR == "/salvar"
RECUPERAR == "/recuperar"

RECURSIVE SplitFrom(_, _, _)
\* str.split(sep): the parts of s between the separators, n + 1 parts for n
\* separators; cur is the part being read.
SplitFrom(s, sep, cur) ==
    IF s = <<>> THEN <<cur>>
    ELSE IF Head(s) = sep THEN <<cur>> \o SplitFrom(Tail(s), sep, <<>>)
    ELSE SplitFrom(Tail(s), sep, Append(cur, Head(s)))

Split(s, sep) == SplitFrom(s, sep, <<>>)

RECURSIVE Join(_, _)
\* sep.join(parts)
Join(parts, sep) ==
    IF parts = <<>> THEN <<>>
    ELSE IF Len(parts) = 1 THEN parts[1]
    ELSE parts[1] \o <<sep>> \o Join(Tail(parts), sep)

RECURSIVE LStrip(_)
LStrip(s) == IF s # <<>> /\ Head(s) = " " THEN LStrip(Tail(s)) ELSE s

RECURSIVE RStrip(_)
RStrip(s) ==
    IF s # <<>> /\ s[Len(s)] = " " THEN RStrip(SubSeq(s, 1, Len(s) - 1)) ELSE s

\* str.strip()
Strip(s) == RStrip(LStrip(s))

\* str.replace(word, ''): every occurrence of the word is removed.
Remove(s, word) == SelectSeq(s, LAMBDA x : x # word)

\* str.startswith(word)
StartsWith(s, word) == s # <<>> /\ Head(s) = word

\* parts[2:]
From3(parts) == SubSeq(parts, 3, Len(parts))

\* ------------------------------------------------------------- inputs
Categories == { <<"c">> }
Keys == { <<"k">> }
Values == { <<" ", "v", ":", "w">>, <<>> }
Limits == { -1, 2 }
Responses == { <<"r1">> }
Errors == { <<"timeout">> }

\* What the client means to send: a save command, a retrieve command, or any
\* other text (ordinary chat, or a command with the wrong number of parts).
SaveIntents ==
    { [form |-> "save", category |-> c, key |-> k, value |-> v, text |-> <<>>] :
        c \in Categories, k \in Keys, v \in Values }
RetrieveIntents ==
    { [form |-> "retrieve", category |-> c, key |-> k, value |-> <<>>, text |-> <<>>] :
        c \in Categories, k \in Keys }
OtherTexts ==
    { <<"oi">>,
      <<SALVAR, " ", "c", ":", "k">>,
      <<RECUPERAR, " ", "c", ":", "k", ":", "x">> }
OtherIntents ==
    { [form |-> "other", category |-> <<>>, key |-> <<>>, value |-> <<>>, text |-> m] :
        m \in OtherTexts }
Intents == SaveIntents \cup RetrieveIntents \cup OtherIntents
NoIntent == [form |-> "none", category |-> <<>>, key |-> <<>>, value |-> <<>>, text |-> <<>>]

\* The message text of an intent: '/salvar <category>:<key>:<value>',
\* '/recuperar <category>:<key>', or the text itself.
Render(i) ==
    CASE i.form = "save" ->
           <<SALVAR, " ">> \o i.category \o <<":">> \o i.key \o <<":">> \o i.value
      [] i.form = "retrieve" ->
           <<RECUPERAR, " ">> \o i.category \o <<":">> \o i.key
      [] OTHER -> i.text

\* ------------------------------------------------------------- chat()
\* The branch chat() takes for a message: the save command needs at least
\* three ':'-separated parts, the retrieve command exactly two; everything
\* else, the other commands included, falls through to process_message.
RouteLoose(m) ==
    IF StartsWith(m, SALVAR) /\ Len(Split(m, ":")) > 3 THEN "salvar"
    ELSE IF StartsWith(m, RECUPERAR) /\ Len(Split(m, ":")) = 2 THEN "recuperar"
    ELSE "process_message"

Route(m) ==
    IF StartsWith(m, SALVAR) /\ Len(Split(m, ":")) >= 3 THEN "salvar"
    ELSE IF StartsWith(m, RECUPERAR) /\ Len(Split(m, ":")) = 2 THEN "recuperar"
    ELSE "process_message"

\* categoria = parts[0].replace(<command>, '').strip()
ParseCategoria(m, command) == Strip(Remove(Split(m, ":")[1], command))

\* chave = parts[1].strip()
ParseChave(m) == Strip(Split(m, ":")[2])

ParseValorFirstPart(m) == Strip(Split(m, ":")[3])

\* valor = ':'.join(parts[2:]).strip()
ParseValor(m) == Strip(Join(From3(Split(m, ":")), ":"))

SalvoBody(c, k) == <<"Conhecimento salvo: ">> \o c \o <<":">> \o k
ErroSalvarBody == <<"Erro ao salvar conhecimento">>
\* "Conhecimento não encontrado", written here without the tilde.
NaoEncontradoBody == <<"Conhecimento nao encontrado">>
RecuperadoBody(v) == <<"Valor recuperado: ">> \o v

Ok(body) == [status |-> 200, body |-> body]
Raised(body) == [status |-> 500, body |-> body]

\* The response of the retrieve branch to get_knowledge's result: a value
\* that is None or empty reads as not found (if valor:).
RecuperarResponse(v) ==
    IF v # None /\ v[1] # <<>> THEN Ok(RecuperadoBody(v[1])) ELSE Ok(NaoEncontradoBody)

\* --------------------------------------------------- process_message()
\* f"{msg[0]} -> {msg[1]}"
FormatEntry(e) == e[1] \o <<" ", "->", " ">> \o e[2]

\* contexto = " ".join(f"{msg[0]} -> {msg[1]}" for msg in historico_conversa)
Contexto(historico) ==
    Join([i \in 1..Len(historico) |-> FormatEntry(historico[i])], " ")

Persona == [role |-> "system", content |-> <<"persona">>]

\* generate_response: the persona, the context when it is not empty, the prompt.
BuildMessages(prompt, context) ==
    <<Persona>>
    \o (IF context # <<>>
        THEN <<[role |-> "system", content |-> <<"Contexto adicional: ">> \o context]>>
        ELSE <<>>)
    \o <<[role |-> "user", content |-> prompt]>>

ApologyBody(e) == <<"Desculpe, ocorreu um erro: ">> \o e

OnCompletionErrorPropagate(e) == Raised(e)

\* except Exception as e: return f"Desculpe, ocorreu um erro: {str(e)}"
OnCompletionError(e) == Ok(ApologyBody(e))

\* ------------------------------------------------------------- SQL
Min(a, b) == IF a < b THEN a ELSE b

ConversationRow(id, um, ar, ts) ==
    [id |-> id, user_message |-> um, ai_response |-> ar, timestamp |-> ts]

InsertConversationOverwrite(table, id, um, ar, ts) ==
    IF table = <<>> THEN <<ConversationRow(id, um, ar, ts)>>
    ELSE [table EXCEPT ![Len(table)] = ConversationRow(id, um, ar, ts)]

\* INSERT INTO conversations (user_message, ai_response) VALUES (?, ?)
InsertConversation(table, id, um, ar, ts) ==
    Append(table, ConversationRow(id, um, ar, ts))

KnowledgeRow(id, c, k, v) == [id |-> id, category |-> c, key |-> k, value |-> v]

InsertOrIgnore(table, id, c, k, v) ==
    IF \E i \in 1..Len(table) : table[i].category = c /\ table[i].key = k
    THEN table
    ELSE Append(table, KnowledgeRow(id, c, k, v))

\* INSERT OR REPLACE INTO knowledge: UNIQUE(category, key) deletes the row in
\* the way before the new one is inserted.
InsertOrReplace(table, id, c, k, v) ==
    Append(SelectSeq(table, LAMBDA r : ~(r.category = c /\ r.key = k)),
           KnowledgeRow(id, c, k, v))

\* SELECT value FROM knowledge WHERE category = ? AND key = ?, fetchone(),
\* result[0] if result else None
SelectValue(table, c, k) ==
    LET hit == SelectSeq(table, LAMBDA r : r.category = c /\ r.key = k)
    IN  IF hit = <<>> THEN None ELSE Some(hit[1].value)

\* ORDER BY timestamp DESC: every arrangement of the rows with the timestamps
\* not increasing; rows of one second come in an order SQL leaves open.
OrderByTimestampDesc(table) ==
    LET n == Len(table)
        perms == { p \in [1..n -> 1..n] : \A i, j \in 1..n : i # j => p[i] # p[j] }
    IN  { [i \in 1..n |-> table[p[i]]] : p \in
            { q \in perms : \A i, j \in 1..n :
                i < j => table[q[i]].timestamp >= table[q[j]].timestamp } }

\* LIMIT ?: a negative limit is no limit.
ApplyLimit(rows, n) ==
    IF n < 0 THEN rows ELSE SubSeq(rows, 1, Min(n, Len(rows)))

\* SELECT user_message, ai_response
Project(rows) ==
    [i \in 1..Len(rows) |-> <<rows[i].user_message, rows[i].ai_response>>]

\* ------------------------------------------------------------- state
VARIABLES
    lock,           \* db_lock: 0 when free, else the thread holding it
    pc,             \* per thread: "idle", "wait" (blocked on db_lock),
                    \* "conn" (inside the with-block), "ai" (completion call)
    frame,          \* per thread: the locals of the request being handled
    conversations,  \* table conversations, in insertion order
    knowledge,      \* table knowledge, in insertion order
    seq_conversations, seq_knowledge,  \* the AUTOINCREMENT counters
    clock,          \* CURRENT_TIMESTAMP, in whole seconds, when last read
    nreq,           \* requests received so far
    responded,      \* the last request answered, with its response
    saved,          \* the successful save_knowledge calls not yet replaced
    nsaved          \* save_conversation calls that returned True

vars == << lock, pc, frame, conversations, knowledge, seq_conversations,
           seq_knowledge, clock, nreq, responded, saved, nsaved >>

tables == << conversations, knowledge, seq_conversations, seq_knowledge >>

NoResponse == [status |-> 0, body |-> <<>>]
NoSteps == [history |-> "none", completion |-> "none", persist |-> "none",
            lookup |-> "none"]

\* The locals of a thread that handles no request.  intent, steps and fetched
\* are not the program's: what the client meant by its message, how each step
\* of the request ended, and the ids of the rows its history read returned.
NoFrame ==
    [route |-> "none", op |-> "none", user_message |-> <<>>, categoria |-> <<>>,
     chave |-> <<>>, valor |-> <<>>, limit |-> 0, messages |-> <<>>,
     resposta |-> <<>>, intent |-> NoIntent, steps |-> NoSteps, fetched |-> <<>>]

NoRequest == [frame |-> NoFrame, error |-> <<>>, response |-> NoResponse]

Init ==
    /\ lock = 0
    /\ pc = [t \in Threads |-> "idle"]
    /\ frame = [t \in Threads |-> NoFrame]
    /\ conversations = <<>>
    /\ knowledge = <<>>
    /\ seq_conversations = 0
    /\ seq_knowledge = 0
    /\ clock = 0
    /\ nreq = 0
    /\ responded = NoRequest
    /\ saved = {}
    /\ nsaved = 0

\* ------------------------------------------------------------- db_lock
CanAcquireAlways == TRUE

\* with db_lock: entered only while no thread holds the lock.
CanAcquire == lock = 0

ReleaseOnErrorLeak == UNCHANGED lock

\* with db_lock: left by the exception raised inside it.
ReleaseOnError == lock' = 0

\* with db_lock: left by the return inside it.
ReleaseOnReturn == lock' = 0

\* ------------------------------------------------------------- requests
HistoryIntent == [form |-> "history", category |-> <<>>, key |-> <<>>,
                  value |-> <<>>, text |-> <<>>]

\* chat(), from data['message'] to its call of the Store: the locals of the
\* branch taken.
ChatFrame(m, i) ==
    LET r == Route(m)
    IN  [NoFrame EXCEPT
           !.user_message = m,
           !.route = r,
           !.op = CASE r = "salvar" -> "save_knowledge"
                    [] r = "recuperar" -> "get_knowledge"
                    [] OTHER -> "get_conversation_history",
           !.categoria = CASE r = "salvar" -> ParseCategoria(m, SALVAR)
                           [] r = "recuperar" -> ParseCategoria(m, RECUPERAR)
                           [] OTHER -> <<>>,
           !.chave = IF r = "process_message" THEN <<>> ELSE ParseChave(m),
           !.valor = IF r = "salvar" THEN ParseValor(m) ELSE <<>>,
           !.limit = IF r = "process_message" THEN ContextLimit ELSE 0,
           !.intent = i]

\* POST /api/chat with the message of intent i: the Store call blocks on db_lock.
Chat(t, i) ==
    /\ pc[t] = "idle"
    /\ nreq < MaxRequests
    /\ frame' = [frame EXCEPT ![t] = ChatFrame(Render(i), i)]
    /\ pc' = [pc EXCEPT ![t] = "wait"]
    /\ nreq' = nreq + 1
    /\ UNCHANGED << lock, tables, clock, responded, saved, nsaved >>

\* GET /api/history?limit=n: get_history() up to its call of the Store.
History(t, n) ==
    /\ pc[t] = "idle"
    /\ nreq < MaxRequests
    /\ frame' = [frame EXCEPT ![t] =
           [NoFrame EXCEPT !.route = "history",
                           !.op = "get_conversation_history",
                           !.limit = n,
                           !.intent = HistoryIntent]]
    /\ pc' = [pc EXCEPT ![t] = "wait"]
    /\ nreq' = nreq + 1
    /\ UNCHANGED << lock, tables, clock, responded, saved, nsaved >>

\* with db_lock: the thread enters the block and opens its connection.
Acquire(t) ==
    /\ pc[t] = "wait"
    /\ CanAcquire
    /\ lock' = t
    /\ pc' = [pc EXCEPT ![t] = "conn"]
    /\ UNCHANGED << frame, tables, clock, nreq, responded, saved, nsaved >>

\* ------------------------------------------- the callers' continuations
\* The request of thread t is answered with resp, its locals being f.
Responds(t, f, error, resp) ==
    /\ responded' = [frame |-> f, error |-> error, response |-> resp]
    /\ frame' = [frame EXCEPT ![t] = NoFrame]
    /\ pc' = [pc EXCEPT ![t] = "idle"]

\* chat(), after save_knowledge returned success.
ReturnSaveKnowledge(t, success) ==
    Responds(t, [frame[t] EXCEPT !.steps.lookup = IF success THEN "ok" ELSE "failed"],
             <<>>,
             IF success THEN Ok(SalvoBody(frame[t].categoria, frame[t].chave))
             ELSE Ok(ErroSalvarBody))

\* chat(), after valor = get_knowledge(...) returned v (None when the lookup
\* failed).
ReturnGetKnowledge(t, v, failed) ==
    Responds(t, [frame[t] EXCEPT !.valor = v,
                                 !.steps.lookup = IF failed THEN "failed" ELSE "ok"],
             <<>>, RecuperarResponse(v))

\* After get_conversation_history returned rows (ids: their ids): in
\* process_message the context is built and the completion call starts; in
\* get_history the rows are the response.
ReturnHistory(t, rows, ids, failed) ==
    LET f == [frame[t] EXCEPT !.fetched = ids,
                              !.steps.history = IF failed THEN "failed" ELSE "ok",
                              !.op = "none"]
    IN  IF frame[t].route = "process_message"
        THEN /\ frame' = [frame EXCEPT ![t] =
                    [f EXCEPT !.messages =
                        BuildMessages(frame[t].user_message, Contexto(rows))]]
             /\ pc' = [pc EXCEPT ![t] = "ai"]
             /\ UNCHANGED responded
        ELSE Responds(t, f, <<>>, Ok(rows))

\* process_message, after save_conversation returned: the result is not
\* read, the completion's text is the response.
ReturnSaveConversation(t, success) ==
    Responds(t, [frame[t] EXCEPT !.steps.persist = IF success THEN "saved" ELSE "failed"],
             <<>>, Ok(frame[t].resposta))

\* ------------------------------------------------------------- the Store
\* The record of a successful save_knowledge, replacing the pair's last one.
Remember(t) ==
    { x \in saved : ~(x.category = frame[t].categoria /\ x.key = frame[t].chave) }
    \cup { [category |-> frame[t].categoria, key |-> frame[t].chave,
            value |-> frame[t].valor, intent |-> frame[t].intent] }

\* save_knowledge: execute, commit, close, return True.
SaveKnowledgeTx(t) ==
    /\ pc[t] = "conn" /\ frame[t].op = "save_knowledge"
    /\ knowledge' = InsertOrReplace(knowledge, seq_knowledge + 1,
                        frame[t].categoria, frame[t].chave, frame[t].valor)
    /\ seq_knowledge' = seq_knowledge + 1
    /\ saved' = Remember(t)
    /\ ReleaseOnReturn
    /\ ReturnSaveKnowledge(t, TRUE)
    /\ UNCHANGED << conversations, seq_conversations, nsaved, clock, nreq >>

\* get_knowledge: execute, fetchone, close, return.
GetKnowledgeTx(t) ==
    /\ pc[t] = "conn" /\ frame[t].op = "get_knowledge"
    /\ ReleaseOnReturn
    /\ ReturnGetKnowledge(t, SelectValue(knowledge, frame[t].categoria, frame[t].chave),
                          FALSE)
    /\ UNCHANGED << tables, saved, nsaved, clock, nreq >>

\* get_conversation_history: execute, fetchall, close, return.
GetHistoryTx(t) ==
    /\ pc[t] = "conn" /\ frame[t].op = "get_conversation_history"
    /\ \E ordered \in OrderByTimestampDesc(conversations) :
         LET rows == ApplyLimit(ordered, frame[t].limit)
         IN  ReturnHistory(t, Project(rows),
                           [i \in 1..Len(rows) |-> rows[i].id], FALSE)
    /\ ReleaseOnReturn
    /\ UNCHANGED << tables, saved, nsaved, clock, nreq >>

\* save_conversation: execute, commit, close, return True.  The row's
\* timestamp is the database's clock, which has stood still or moved on since
\* the last row.
SaveConversationTx(t) ==
    /\ pc[t] = "conn" /\ frame[t].op = "save_conversation"
    /\ \E now \in { clock, clock + 1 } :
         /\ conversations' = InsertConversation(conversations, seq_conversations + 1,
                                 frame[t].user_message, frame[t].resposta, now)
         /\ clock' = now
    /\ seq_conversations' = seq_conversations + 1
    /\ nsaved' = nsaved + 1
    /\ ReleaseOnReturn
    /\ ReturnSaveConversation(t, TRUE)
    /\ UNCHANGED << knowledge, seq_knowledge, saved, nreq >>

DbFailAfterCommit(t) ==
    /\ pc[t] = "conn"
    /\ ReleaseOnError
    /\ CASE frame[t].op = "save_knowledge" -> ReturnSaveKnowledge(t, FALSE)
         [] frame[t].op = "get_knowledge" -> ReturnGetKnowledge(t, None, TRUE)
         [] frame[t].op = "get_conversation_history" -> ReturnHistory(t, <<>>, <<>>, TRUE)
         [] frame[t].op = "save_conversation" -> ReturnSaveConversation(t, FALSE)
    /\ conversations' =
          IF frame[t].op = "save_conversation"
          THEN InsertConversation(conversations, seq_conversations + 1,
                                  frame[t].user_message, frame[t].resposta, clock)
          ELSE conversations
    /\ UNCHANGED << knowledge, seq_conversations, seq_knowledge, saved, nsaved,
                    clock, nreq >>

\* The database raises inside the with-block (connect, execute or commit):
\* nothing is committed, the lock is released, and the method's except
\* clause returns its sentinel: False, None or [].
DbFail(t) ==
    /\ pc[t] = "conn"
    /\ ReleaseOnError
    /\ CASE frame[t].op = "save_knowledge" -> ReturnSaveKnowledge(t, FALSE)
         [] frame[t].op = "get_knowledge" -> ReturnGetKnowledge(t, None, TRUE)
         [] frame[t].op = "get_conversation_history" -> ReturnHistory(t, <<>>, <<>>, TRUE)
         [] frame[t].op = "save_conversation" -> ReturnSaveConversation(t, FALSE)
    /\ UNCHANGED << tables, saved, nsaved, clock, nreq >>

\* ------------------------------------------------------- the completion
\* client.chat.completions.create returns the text r: process_message goes
\* on to save_conversation, which blocks on db_lock.
CompleteOk(t, r) ==
    /\ pc[t] = "ai"
    /\ frame' = [frame EXCEPT ![t].resposta = r,
                              ![t].messages = <<>>,
                              ![t].fetched = <<>>,
                              ![t].steps.completion = "ok",
                              ![t].op = "save_conversation"]
    /\ pc' = [pc EXCEPT ![t] = "wait"]
    /\ UNCHANGED << lock, tables, clock, nreq, responded, saved, nsaved >>

\* client.chat.completions.create raises e: process_message's except clause
\* answers.
CompleteFail(t, e) ==
    /\ pc[t] = "ai"
    /\ Responds(t, [frame[t] EXCEPT !.messages = <<>>,
                                    !.fetched = <<>>,
                                    !.steps.completion = "error"],
                e, OnCompletionError(e))
    /\ UNCHANGED << lock, tables, clock, nreq, saved, nsaved >>

Next ==
    \/ \E t \in Threads, i \in Intents : Chat(t, i)
    \/ \E t \in Threads, n \in Limits : History(t, n)
    \/ \E t \in Threads : Acquire(t)
    \/ \E t \in Threads : SaveKnowledgeTx(t)
    \/ \E t \in Threads : GetKnowledgeTx(t)
    \/ \E t \in Threads : GetHistoryTx(t)
    \/ \E t \in Threads : SaveConversationTx(t)
    \/ \E t \in Threads : DbFail(t)
    \/ \E t \in Threads, r \in Responses : CompleteOk(t, r)
    \/ \E t \in Threads, e \in Errors : CompleteFail(t, e)

Spec == Init /\ [][Next]_vars

\* A message that starts with a command word.
IsCommand(m) == StartsWith(m, SALVAR) \/ StartsWith(m, RECUPERAR)

\* The requests of the fair specification: one ordinary message, one save
\* command and one retrieve command, which reach the four Store methods.
LiveIntents ==
    { i \in Intents :
        \/ i.form = "retrieve"
        \/ i.form = "save" /\ i.value # <<>>
        \/ i.form = "other" /\ ~IsCommand(i.text) }

LiveNext ==
    \/ \E t \in Threads, i \in LiveIntents : Chat(t, i)
    \/ \E t \in Threads : Acquire(t)
    \/ \E t \in Threads : SaveKnowledgeTx(t)
    \/ \E t \in Threads : GetKnowledgeTx(t)
    \/ \E t \in Threads : GetHistoryTx(t)
    \/ \E t \in Threads : SaveConversationTx(t)
    \/ \E t \in Threads : DbFail(t)
    \/ \E t \in Threads, r \in Responses : CompleteOk(t, r)
    \/ \E t \in Threads, e \in Errors : CompleteFail(t, e)

\* A thread inside the with-block finishes its database step (sqlite3 gives up
\* after its timeout), and a thread blocked on db_lock gets it if it is free
\* again and again.  Nothing makes the completion call return.
InTransaction(t) ==
    SaveKnowledgeTx(t) \/ GetKnowledgeTx(t) \/ GetHistoryTx(t)
    \/ SaveConversationTx(t) \/ DbFail(t)

Fairness ==
    \A t \in Threads : WF_vars(InTransaction(t)) /\ SF_vars(Acquire(t))

FairSpec == Init /\ [][LiveNext]_vars /\ Fairness

\* ============================================================= claims
\* The value of the last successful save_knowledge(c, k, ...), or None.
LastSaved(c, k) ==
    LET hits == { x \in saved : x.category = c /\ x.key = k }
    IN  IF hits = {} THEN None ELSE Some((CHOOSE x \in hits : TRUE).value)

\* The n most recent rows of a table, the most recent first.
MostRecentFirst(table, n) ==
    [i \in 1..Min(n, Len(table)) |-> table[Len(table) - i + 1]]

Decreasing(ids) == \A i, j \in 1..Len(ids) : i < j => ids[i] > ids[j]

\* The request answered last, and the locals it ended with.
last == responded.frame

\* C1: at most one thread is inside a database transaction (the with-block:
\* open connection, execute, commit, close) at a time, and it holds db_lock.
C1_MutualExclusion ==
    \A t1, t2 \in Threads :
        pc[t1] = "conn" /\ pc[t2] = "conn" => t1 = t2 /\ lock = t1

C1_Witness ==
    \E t1, t2 \in Threads : t1 # t2 /\ pc[t1] = "conn" /\ pc[t2] = "wait"

\* C2: the conversations table holds exactly one row per save_conversation
\* call that returned True, and the rows' ids are pairwise distinct.
C2_NoLostInsert ==
    /\ Len(conversations) = nsaved
    /\ \A i, j \in 1..Len(conversations) :
          i # j => conversations[i].id # conversations[j].id

C2_Witness ==
    /\ nsaved >= 1
    /\ \E t1, t2 \in Threads :
          /\ t1 # t2
          /\ frame[t1].op = "save_conversation" /\ pc[t1] = "conn"
          /\ frame[t2].op = "save_conversation" /\ pc[t2] = "wait"

AtMostOnePerPair ==
    \A i, j \in 1..Len(knowledge) :
        i # j => ~(knowledge[i].category = knowledge[j].category
                   /\ knowledge[i].key = knowledge[j].key)

\* C3, as claimed: at most one KnowledgeFact per (category, key), and
\* get_knowledge returns the value of the most recent successful
\* save_knowledge for the pair, or None when the pair was never saved.
C3_Original ==
    /\ AtMostOnePerPair
    /\ last.route = "recuperar" => last.valor = LastSaved(last.categoria, last.chave)

\* C3, amended: at most one KnowledgeFact per (category, key); a get_knowledge
\* whose database step succeeds returns the value of the most recent
\* successful save_knowledge for the pair, or None when the pair was never
\* saved; a get_knowledge whose database step fails returns None, saved or not.
C3_Upsert ==
    /\ AtMostOnePerPair
    /\ last.route = "recuperar" =>
          last.valor = IF last.steps.lookup = "failed" THEN None
                       ELSE LastSaved(last.categoria, last.chave)

C3_Witness ==
    /\ last.route = "recuperar"
    /\ last.steps.lookup = "ok"
    /\ seq_knowledge >= 2
    /\ last.valor = Some(<<"v", ":", "w">>)

\* C4: for a limit N >= 0, get_conversation_history(N) returns at most N
\* entries, an entry saved later never after an entry saved earlier, and
\* nothing when no conversation has been saved.  (A negative N, which the
\* claim's "at most N" cannot hold for, is left out of this statement.)
C4_History ==
    last.route = "history" /\ last.limit >= 0 =>
        /\ Len(last.fetched) <= last.limit
        /\ Len(responded.response.body) = Len(last.fetched)
        /\ Decreasing(last.fetched)
        /\ conversations = <<>> => responded.response.body = <<>>

\* The last successful save command for the pair a retrieve command names.
SavedFor(i) ==
    { x \in saved : x.intent.category = i.category /\ x.intent.key = i.key }

\* C5, as claimed: '/recuperar <category>:<key>' after a successful
\* '/salvar <category>:<key>:<value>' answers 'Valor recuperado: <value>',
\* the value verbatim.
C5_Original ==
    last.intent.form = "retrieve" =>
        \A x \in SavedFor(last.intent) :
            responded.response.body = RecuperadoBody(x.intent.value)

\* C5, amended: provided both Store calls succeed, the answer is 'Valor
\* recuperado: <value>' with the value stripped of the blanks around it (its
\* inner ':' kept), and 'Conhecimento nao encontrado' when the stripped value
\* is empty; when the lookup fails it is 'Conhecimento nao encontrado' too.
C5_RoundTrip ==
    last.intent.form = "retrieve" =>
        \A x \in SavedFor(last.intent) :
            responded.response.body =
                IF last.steps.lookup = "ok" /\ Strip(x.intent.value) # <<>>
                THEN RecuperadoBody(Strip(x.intent.value))
                ELSE NaoEncontradoBody

C5_Witness ==
    /\ last.intent.form = "retrieve"
    /\ \E x \in SavedFor(last.intent) : x.intent.value = <<" ", "v", ":", "w">>
    /\ responded.response.body = RecuperadoBody(<<"v", ":", "w">>)

\* C6, as claimed: a message that starts with '/salvar' or '/recuperar' never
\* reaches process_message: no completion call, no ConversationEntry.
C6_Original ==
    /\ \A t \in Threads :
          IsCommand(frame[t].user_message) => frame[t].route # "process_message"
    /\ \A n \in 1..Len(conversations) : ~IsCommand(conversations[n].user_message)

\* C6, amended: a message '/salvar <category>:<key>:<value>' (at least three
\* ':'-separated parts) or '/recuperar <category>:<key>' (exactly two) never
\* reaches process_message: no completion call, no ConversationEntry.
C6_CommandsBypass ==
    /\ \A t \in Threads :
          frame[t].intent.form \in {"save", "retrieve"} =>
              /\ frame[t].route \in {"salvar", "recuperar"}
              /\ pc[t] # "ai"
              /\ frame[t].op \in {"save_knowledge", "get_knowledge"}
    /\ \A n \in 1..Len(conversations) :
          \A i \in SaveIntents \cup RetrieveIntents :
              conversations[n].user_message # Render(i)
    /\ last.intent.form \in {"save", "retrieve"} =>
          /\ last.steps.completion = "none"
          /\ last.steps.persist = "none"

C6_Witness ==
    /\ last.intent.form = "save"
    /\ Len(Split(last.user_message, ":")) = 3
    /\ responded.response = Ok(SalvoBody(<<"c">>, <<"k">>))
    /\ nreq >= 2

\* C7: process_message always answers normally: with the apology embedding
\* the error text when the completion call raises, and with the completion's
\* text when save_conversation fails.
C7_NeverPropagates ==
    /\ responded.response.status \in {0, 200}
    /\ last.steps.completion = "error" =>
          responded.response = Ok(ApologyBody(responded.error))
    /\ last.steps.persist = "failed" =>
          responded.response = Ok(last.resposta)

C7_Witness ==
    /\ last.steps.completion = "error"
    /\ responded.response.body = ApologyBody(<<"timeout">>)

\* C8, as claimed: a process_message call whose completion succeeded has
\* created its ConversationEntry.
C8_Original ==
    last.steps.completion = "ok" =>
        /\ conversations # <<>>
        /\ conversations[Len(conversations)].user_message = last.user_message
        /\ conversations[Len(conversations)].ai_response = last.resposta

\* C8, amended: a step changes the conversations table only when a
\* process_message call whose completion succeeded has its save_conversation
\* succeed, and then by appending the one row (user_message, response); when
\* the completion or the save fails, and in every other step, the table is
\* left as it is.
C8_AppendOnly ==
    [][ LET savers == { t \in Threads :
                          /\ pc[t] = "conn" /\ pc'[t] = "idle"
                          /\ frame[t].op = "save_conversation"
                          /\ frame[t].steps.completion = "ok"
                          /\ responded'.frame.steps.persist = "saved" }
        IN  IF savers # {}
            THEN \E t \in savers :
                   /\ Len(conversations') = Len(conversations) + 1
                   /\ SubSeq(conversations', 1, Len(conversations)) = conversations
                   /\ conversations'[Len(conversations')].user_message
                        = frame[t].user_message
                   /\ conversations'[Len(conversations')].ai_response
                        = frame[t].resposta
            ELSE conversations' = conversations ]_vars

C8_Witness ==
    /\ last.steps.persist = "saved"
    /\ Len(conversations) >= 2
    /\ seq_knowledge >= 1

\* C9: when process_message has read the history, the messages of its
\* completion call carry the context built from the (at most) 2 most recent
\* entries, '<user_message> -> <ai_response>', the most recent first, and no
\* context message when there is no entry.
C9_Context ==
    [][ \A t \in Threads :
          pc[t] = "conn" /\ pc'[t] = "ai" /\ frame'[t].steps.history = "ok" =>
              frame'[t].messages =
                  <<Persona>>
                  \o (IF conversations = <<>> THEN <<>>
                      ELSE <<[role |-> "system",
                              content |-> <<"Contexto adicional: ">>
                                 \o Contexto(Project(MostRecentFirst(conversations,
                                                                     ContextLimit)))]>>)
                  \o <<[role |-> "user", content |-> frame[t].user_message]>> ]_vars

\* C10: db_lock is held only inside the with-block (never by a thread that
\* is idle, blocked on the lock or in the completion call), and a thread
\* blocked on db_lock eventually holds it.
C10_LockReleased ==
    /\ [](\A t \in Threads : pc[t] # "conn" => lock # t)
    /\ \A t \in Threads : (pc[t] = "wait") ~> (lock = t)

C10_Witness ==
    \E t1, t2 \in Threads :
        /\ pc[t1] = "ai"
        /\ pc[t2] = "conn" /\ lock = t2
        /\ last.steps.lookup = "failed"

====
